---------------------------- MODULE Spec2Model ----------------------------
(***************************************************************************)
(* Model of central-limit (src/src/main.rs): the random-walk histogram     *)
(* App::on_tick, the event loop run_app and the terminal set-up and        *)
(* tear-down of main.                                                      *)
(*                                                                         *)
(* App::new fixes b_count = 5000 and r_max = 19.  A frame of 5000 walks of *)
(* 19 steps is out of reach of explicit-state checking, so the two fields  *)
(* are drawn in the initial state from the small ranges below; the code    *)
(* never writes them afterwards.                                           *)
(***************************************************************************)
EXTENDS Integers, Sequences, FiniteSets, TLC

(* ------------------------------ bounds --------------------------------- *)
\* largest r_max and b_count drawn when on_tick is checked on its own
MaxRMax == 9
MaxBCount == 2
\* largest r_max and b_count drawn when the whole program is checked
MaxLoopRMax == 2
MaxLoopBCount == 1
\* the clock advances in steps of Quantum milliseconds up to MaxTime
Quantum == 250
MaxTime == 1250
\* number of input events the terminal delivers during one run
MaxEvents == 2
\* largest r_max and b_count, and the number of calls of on_tick, when the
\* outcomes of the random source are logged
MaxDetRMax == 3
MaxDetBCount == 2
MaxDetCalls == 2

(* ----------------------------- constants ------------------------------- *)
\* Duration::from_millis(500)
tick_rate == 500
\* the visual padding of the label range, r_max + 2
pad == 2
\* gen_range(0..10)
rng_range == 10
\* ... < 5
rng_split == 5

VARIABLES
    pc,            \* position of the single thread of control
    b_count,       \* App.b_count
    r_max,         \* App.r_max
    data,          \* App.data : Vec<(String, u64)>
    buckets,       \* on_tick: the labels still to be binned (Vec<i32>)
    sums,          \* on_tick: one endpoint per walk (Vec<i32>)
    steps,         \* on_tick: steps taken in the walk in progress
    last_tick,     \* run_app: Instant of the last regeneration
    timeout,       \* run_app: the Duration handed to poll
    res,           \* main: the io::Result returned by run_app
    exit_code,     \* the process's exit code, -1 while it runs
    output,        \* what the process printed (stdout and stderr)
    now,           \* the clock (ms)
    events,        \* terminal input not yet read
    raw_mode,      \* terminal: raw mode is on
    alt_screen,    \* terminal: the alternate screen is shown
    mouse_capture, \* terminal: mouse capture is on
    screen,        \* terminal: the bar data of the last completed draw
    hist           \* history: what has been executed so far

appVars == <<b_count, r_max, data>>
tickVars == <<buckets, sums, steps>>
loopVars == <<last_tick, timeout>>
mainVars == <<res, exit_code, output>>
termVars == <<raw_mode, alt_screen, mouse_capture, screen>>
vars == <<pc, b_count, r_max, data, buckets, sums, steps, last_tick, timeout,
          res, exit_code, output, now, events, raw_mode, alt_screen,
          mouse_capture, screen, hist>>

(* ------------------------- pure helpers -------------------------------- *)

\* Rust's % on i32: the remainder takes the sign of the dividend
Rem(a, n) == IF a >= 0 THEN a % n ELSE -((-a) % n)

DigitChars == <<"0", "1", "2", "3", "4", "5", "6", "7", "8", "9">>

RECURSIVE Digits(_)
Digits(n) == IF n < 10 THEN <<DigitChars[n + 1]>>
             ELSE Digits(n \div 10) \o <<DigitChars[(n % 10) + 1]>>

\* format!("{}", b) for an i32: a string as its sequence of characters
Format(n) == IF n < 0 THEN <<"-">> \o Digits(-n) ELSE Digits(n)

DigitValue(c) == CHOOSE d \in 0..9 : DigitChars[d + 1] = c

RECURSIVE ParseDigits(_)
ParseDigits(s) == IF s = <<>> THEN 0
                  ELSE 10 * ParseDigits(SubSeq(s, 1, Len(s) - 1))
                       + DigitValue(s[Len(s)])

\* str::parse::<f64>() on a label written by Format (ui), an integral value
Parse(s) == IF s # <<>> /\ s[1] = "-" THEN -ParseDigits(Tail(s))
            ELSE ParseDigits(s)

\* (b_min, b_max) = (-(r_max + 2), r_max + 2), in i32: the sum does not
\* overflow for r_max <= i32::MAX - 2, far above every r_max drawn here
BMin(r) == -(r + pad)
BMax(r) == r + pad

\* variant of IsLabel: r % 2 == 1, which no negative r satisfies
IsLabelRemOne(r) == Rem(r, 2) = 1

\* for r in b_min..=b_max { if r % 2 != 0 { buckets.push(r) } }
IsLabel(r) == Rem(r, 2) # 0

Buckets(r) ==
    LET lo == BMin(r)
        hi == BMax(r)
        all == [j \in 1..(IF hi >= lo THEN hi - lo + 1 ELSE 0) |-> lo + j - 1]
    IN  SelectSeq(all, IsLabel)

\* variant of StepDelta: the else branch leaves the sum alone
StepDeltaNoUp(d) == IF d < rng_split THEN -1 ELSE 0

\* if thread_rng().gen_range(0..10) < 5 { sums[b] -= 1 } else { sums[b] += 1 }
StepDelta(d) == IF d < rng_split THEN -1 ELSE 1

\* variant of WalkContinues: the walk runs over the padded length
WalkContinuesPadded(taken, r) == taken < r + pad

\* for _ in 0..self.r_max
WalkContinues(taken, r) == taken < r

\* variant of Count: an endpoint is binned into the label at or below it
CountNearest(s, b) == Cardinality({j \in DOMAIN s : s[j] = b \/ s[j] = b + 1})

\* sums.iter().filter(|s| *s == &b).count() as u64
Count(s, b) == Cardinality({j \in DOMAIN s : s[j] = b})

(* ------------------------------ values --------------------------------- *)

\* io::Result<()> of run_app, and the state before it has returned
NoResult == [kind |-> "none", err |-> ""]
Ok == [kind |-> "Ok", err |-> ""]
Err(op) == [kind |-> "Err", err |-> op]

\* crossterm events: Event::Key(KeyEvent { code: KeyCode::Char(c), .. }),
\* and Event::Mouse(..) standing for every event that is not a key
Key(c) == [kind |-> "Key", code |-> c]
KeyQ == Key("q")
KeyUpperQ == Key("Q")
Mouse == [kind |-> "Mouse", code |-> ""]
InputEvents == {KeyQ, KeyUpperQ, Mouse}

(* --------------------------- App::on_tick ------------------------------ *)

OnTickPcs == {"on_tick", "sample", "step", "clear", "bin"}

\* lines 47-56: the label sequence and the empty sums vector
OnTickBegin ==
    /\ pc = "on_tick"
    /\ buckets' = Buckets(r_max)
    /\ sums' = <<>>
    /\ steps' = 0
    /\ pc' = "sample"
    /\ hist' = [hist EXCEPT !.on_tick = @ + 1, !.lows = <<>>]
    /\ UNCHANGED <<appVars, last_tick, timeout, res, exit_code, output, now,
                   events, termVars>>

\* lines 57-59: the next walk starts at 0, or all b_count walks are done
SampleBegin ==
    /\ pc = "sample"
    /\ IF Len(sums) < b_count
       THEN /\ sums' = Append(sums, 0)
            /\ steps' = 0
            /\ pc' = "step"
       ELSE /\ pc' = "clear"
            /\ UNCHANGED <<sums, steps>>
    /\ UNCHANGED <<appVars, buckets, last_tick, timeout, res, exit_code,
                   output, now, events, termVars, hist>>

\* lines 60-66: one random unit step of the walk in progress
Step ==
    /\ pc = "step"
    /\ IF WalkContinues(steps, r_max)
       THEN \E d \in 0..(rng_range - 1) :
               /\ sums' = [sums EXCEPT ![Len(sums)] = @ + StepDelta(d)]
               /\ steps' = steps + 1
               /\ pc' = "step"
               /\ hist' = IF hist.log
                          THEN [hist EXCEPT !.lows = Append(@, d < rng_split)]
                          ELSE hist
       ELSE /\ pc' = "sample"
            /\ UNCHANGED <<sums, steps, hist>>
    /\ UNCHANGED <<appVars, buckets, last_tick, timeout, res, exit_code,
                   output, now, events, termVars>>

\* variant of AfterClear: on_tick returns to the loop once data is cleared
AfterClearReturn == "draw"

\* line 69 is followed by the loop of lines 71-74
AfterClear == "bin"

\* variant of Clear: the previous frame is kept and the new one appended
ClearKeeps ==
    /\ pc = "clear"
    /\ pc' = AfterClear
    /\ UNCHANGED <<appVars, tickVars, last_tick, timeout, res, exit_code,
                   output, now, events, termVars, hist>>

\* line 69: self.data.clear()
Clear ==
    /\ pc = "clear"
    /\ data' = <<>>
    /\ pc' = AfterClear
    /\ UNCHANGED <<b_count, r_max, tickVars, last_tick, timeout, res,
                   exit_code, output, now, events, termVars, hist>>

\* lines 71-74: one (label, count) pair per bucket, then on_tick returns
\* and its locals are dropped
Bin ==
    /\ pc = "bin"
    /\ IF buckets # <<>>
       THEN /\ data' = Append(data, [label |-> Format(Head(buckets)),
                                     count |-> Count(sums, Head(buckets))])
            /\ buckets' = Tail(buckets)
            /\ pc' = "bin"
            /\ UNCHANGED <<sums, steps, hist>>
       ELSE /\ pc' = "tick_done"
            /\ hist' = [hist EXCEPT !.ticked = @ + 1, !.last_frame = data]
            /\ sums' = <<>>
            /\ steps' = 0
            /\ UNCHANGED <<data, buckets>>
    /\ UNCHANGED <<b_count, r_max, last_tick, timeout, res,
                   exit_code, output, now, events, termVars>>

(* --------------------- on_tick checked on its own ---------------------- *)

NoEvent == [kind |-> "None", code |-> ""]

\* nothing executed yet
Hist0 == [on_tick |-> 0,          \* calls of App::on_tick
          ticked |-> 0,           \* returns of App::on_tick
          draws |-> 0,            \* calls of terminal.draw
          polls |-> 0,            \* calls of event::poll
          reads |-> 0,            \* calls of event::read
          timeouts |-> 0,         \* polls that returned false
          inputs |-> 0,           \* events delivered by the terminal
          failed |-> "none",      \* the operation of run_app that failed
          last_read |-> NoEvent,  \* the event returned by the last read
          run_start |-> 0,        \* the time run_app was entered
          poll_start |-> 0,       \* the time the poll in progress began
          call_time |-> 0,        \* the time of the last call of on_tick
          q_draws |-> 0,          \* draws made while 'q' was next in the queue
          q_ticks |-> 0,          \* on_tick calls made while 'q' was next
          q_polls |-> 0,          \* polls that returned while 'q' was next
          raw_entered |-> FALSE,  \* enable_raw_mode succeeded
          alt_entered |-> FALSE,  \* EnterAlternateScreen succeeded
          disable_raw |-> 0,      \* executions of disable_raw_mode
          leave_alt |-> 0,        \* executions of LeaveAlternateScreen
          show_cursor |-> 0,      \* executions of show_cursor
          reported |-> FALSE,     \* main reached its final Ok(())
          last_frame |-> <<>>,    \* data as the last completed on_tick left it
          log |-> FALSE,          \* the random source is being logged
          lows |-> <<>>]          \* logged: did each draw of this call fall
                                  \* below the split, in the order drawn

InitTick ==
    /\ pc = "on_tick"
    /\ b_count \in 0..MaxBCount
    /\ r_max \in 1..MaxRMax
    /\ data = <<>>
    /\ buckets = <<>>
    /\ sums = <<>>
    /\ steps = 0
    /\ last_tick = 0
    /\ timeout = 0
    /\ res = NoResult
    /\ exit_code = -1
    /\ output = <<>>
    /\ now = 0
    /\ events = <<>>
    /\ raw_mode = FALSE
    /\ alt_screen = FALSE
    /\ mouse_capture = FALSE
    /\ screen = <<>>
    /\ hist = Hist0

NextTick == OnTickBegin \/ SampleBegin \/ Step \/ Clear \/ Bin

SpecTick == InitTick /\ [][NextTick]_vars

(* ------- on_tick called repeatedly with its random source logged ------- *)

InitDet ==
    /\ pc = "on_tick"
    /\ b_count \in 0..MaxDetBCount
    /\ r_max \in 1..MaxDetRMax
    /\ data = <<>>
    /\ buckets = <<>>
    /\ sums = <<>>
    /\ steps = 0
    /\ last_tick = 0
    /\ timeout = 0
    /\ res = NoResult
    /\ exit_code = -1
    /\ output = <<>>
    /\ now = 0
    /\ events = <<>>
    /\ raw_mode = FALSE
    /\ alt_screen = FALSE
    /\ mouse_capture = FALSE
    /\ screen = <<>>
    /\ hist = [Hist0 EXCEPT !.log = TRUE]

\* line 129 again: the caller invokes on_tick on the same App once more
CallAgain ==
    /\ pc = "tick_done"
    /\ hist.on_tick < MaxDetCalls
    /\ pc' = "on_tick"
    /\ UNCHANGED <<appVars, tickVars, loopVars, mainVars, now, events,
                   termVars, hist>>

NextDet == OnTickBegin \/ SampleBegin \/ Step \/ Clear \/ Bin \/ CallAgain

SpecDet == InitDet /\ [][NextDet]_vars

(* ------------------------------ run_app -------------------------------- *)

LoopPcs == {"draw", "timeout", "poll", "read", "check_tick", "tick_done"}

\* 'q' is the next event the program will read
QNext == events # <<>> /\ Head(events) = KeyQ

\* variant of IsQuit: the comparison ignores case
IsQuitAnyCase(ev) == ev.kind = "Key" /\ ev.code \in {"q", "Q"}

\* variant of IsQuit: the comparison is against the wrong character
IsQuitUpper(ev) == ev.kind = "Key" /\ ev.code = "Q"

\* if let Event::Key(key) = .. { if let KeyCode::Char('q') = key.code {..} }
IsQuit(ev) == ev.kind = "Key" /\ ev.code = "q"

\* variant of Timeout: a plain subtraction
TimeoutUnchecked(elapsed) == tick_rate - elapsed

\* tick_rate.checked_sub(elapsed).unwrap_or_else(|| Duration::from_secs(0))
Timeout(elapsed) == IF elapsed <= tick_rate THEN tick_rate - elapsed ELSE 0

\* variant of TickDue: half a tick is enough
TickDueHalf(elapsed) == 2 * elapsed >= tick_rate

\* variant of TickDue: a strict comparison
TickDueStrict(elapsed) == elapsed > tick_rate

\* if last_tick.elapsed() >= tick_rate
TickDue(elapsed) == elapsed >= tick_rate

\* variant of FailTarget: a failed poll is polled again
FailTargetRetry(op) == IF op = "poll" THEN "poll" ELSE "disable_raw_mode"

\* the ? operator in run_app: a failure of op returns to main, line 90
FailTarget(op) == "disable_raw_mode"

\* run_app returns Err(e)? from operation op
Fail(op) ==
    /\ res' = Err(op)
    /\ pc' = FailTarget(op)
    /\ UNCHANGED <<exit_code, output>>

\* line 114: terminal.draw(|f| ui(f, &app))?
Draw ==
    /\ pc = "draw"
    /\ \E ok \in BOOLEAN :
          IF ok
          THEN /\ screen' = [j \in DOMAIN data |->
                               [label |-> data[j].label,
                                value |-> data[j].count,
                                x |-> Parse(data[j].label)]]
               /\ pc' = "timeout"
               /\ hist' = [hist EXCEPT !.draws = @ + 1,
                              !.q_draws = IF QNext THEN @ + 1 ELSE @]
               /\ UNCHANGED mainVars
          ELSE /\ Fail("draw")
               /\ hist' = [hist EXCEPT !.draws = @ + 1, !.failed = "draw",
                              !.q_draws = IF QNext THEN @ + 1 ELSE @]
               /\ UNCHANGED screen
    /\ UNCHANGED <<appVars, tickVars, loopVars, now, events, raw_mode,
                   alt_screen, mouse_capture>>

\* lines 116-118: the time left until the next tick
ComputeTimeout ==
    /\ pc = "timeout"
    /\ timeout' = Timeout(now - last_tick)
    /\ hist' = [hist EXCEPT !.poll_start = now]
    /\ pc' = "poll"
    /\ UNCHANGED <<appVars, tickVars, last_tick, mainVars, now, events,
                   termVars>>

\* variant of PollTarget: the event is read whatever poll reported
PollTargetAlwaysRead(ready) == "read"

\* lines 120-121: if crossterm::event::poll(timeout)? { event::read()? .. }
PollTarget(ready) == IF ready THEN "read" ELSE "check_tick"

\* line 120: poll returns true as soon as an event is available, false
\* once timeout has passed without one, or an error
Poll ==
    /\ pc = "poll"
    /\ \/ /\ events # <<>>
          /\ pc' = PollTarget(TRUE)
          /\ hist' = [hist EXCEPT !.polls = @ + 1,
                         !.q_polls = IF QNext THEN @ + 1 ELSE @]
          /\ UNCHANGED mainVars
       \/ /\ events = <<>>
          /\ now - hist.poll_start >= timeout
          /\ pc' = PollTarget(FALSE)
          /\ hist' = [hist EXCEPT !.polls = @ + 1, !.timeouts = @ + 1]
          /\ UNCHANGED mainVars
       \/ /\ Fail("poll")
          /\ hist' = [hist EXCEPT !.polls = @ + 1, !.failed = "poll"]
    /\ UNCHANGED <<appVars, tickVars, loopVars, now, events, termVars>>

\* lines 121-125: read one event; the key 'q' returns Ok(()), any other
\* event falls through to the tick check
Read ==
    /\ pc = "read"
    /\ \/ /\ events # <<>>
          /\ events' = Tail(events)
          /\ hist' = [hist EXCEPT !.reads = @ + 1, !.last_read = Head(events)]
          /\ IF IsQuit(Head(events))
             THEN /\ res' = Ok
                  /\ pc' = "disable_raw_mode"
                  /\ UNCHANGED <<exit_code, output>>
             ELSE /\ pc' = "check_tick"
                  /\ UNCHANGED mainVars
       \/ /\ Fail("read")
          /\ hist' = [hist EXCEPT !.reads = @ + 1, !.failed = "read"]
          /\ UNCHANGED events
    /\ UNCHANGED <<appVars, tickVars, loopVars, now, termVars>>

\* lines 128-129: regenerate when a whole tick has passed
CheckTick ==
    /\ pc = "check_tick"
    /\ IF TickDue(now - last_tick)
       THEN /\ pc' = "on_tick"
            /\ hist' = [hist EXCEPT !.q_ticks = IF QNext THEN @ + 1 ELSE @,
                                    !.call_time = now]
       ELSE /\ pc' = "draw"
            /\ UNCHANGED hist
    /\ UNCHANGED <<appVars, tickVars, loopVars, mainVars, now, events,
                   termVars>>

\* variant of ResetTick: the frame is dropped as well
ResetTickClears ==
    /\ pc = "tick_done"
    /\ last_tick' = now
    /\ data' = <<>>
    /\ pc' = "draw"
    /\ UNCHANGED <<b_count, r_max, tickVars, timeout, mainVars, now, events,
                   termVars, hist>>

\* line 130: last_tick = Instant::now()
ResetTick ==
    /\ pc = "tick_done"
    /\ last_tick' = now
    /\ pc' = "draw"
    /\ UNCHANGED <<appVars, tickVars, timeout, mainVars, now, events,
                   termVars, hist>>

(* -------------------------------- main --------------------------------- *)

\* main returns Err(e): the runtime prints it to stderr and exits with 1
MainErr(op) ==
    /\ exit_code' = 1
    /\ output' = Append(output, [stream |-> "stderr", err |-> op])
    /\ pc' = "exit"

\* line 79: enable_raw_mode()?
EnableRawMode ==
    /\ pc = "enable_raw_mode"
    /\ \E ok \in BOOLEAN :
          IF ok
          THEN /\ raw_mode' = TRUE
               /\ hist' = [hist EXCEPT !.raw_entered = TRUE]
               /\ pc' = "enter_alt"
               /\ UNCHANGED <<exit_code, output>>
          ELSE /\ MainErr("enable_raw_mode")
               /\ UNCHANGED <<raw_mode, hist>>
    /\ UNCHANGED <<appVars, tickVars, loopVars, res, now, events,
                   alt_screen, mouse_capture, screen>>

\* lines 81-82: execute!(stdout, EnterAlternateScreen, EnableMouseCapture)?
EnterAlternateScreen ==
    /\ pc = "enter_alt"
    /\ \E ok \in BOOLEAN :
          IF ok
          THEN /\ alt_screen' = TRUE
               /\ mouse_capture' = TRUE
               /\ hist' = [hist EXCEPT !.alt_entered = TRUE]
               /\ pc' = "terminal_new"
               /\ UNCHANGED <<exit_code, output>>
          ELSE /\ MainErr("enter_alt")
               /\ UNCHANGED <<alt_screen, mouse_capture, hist>>
    /\ UNCHANGED <<appVars, tickVars, loopVars, res, now, events, raw_mode,
                   screen>>

\* lines 83-84: Terminal::new(backend)?
TerminalNew ==
    /\ pc = "terminal_new"
    /\ \E ok \in BOOLEAN :
          IF ok
          THEN /\ pc' = "app_new"
               /\ UNCHANGED <<exit_code, output>>
          ELSE MainErr("terminal_new")
    /\ UNCHANGED <<appVars, tickVars, loopVars, res, now, events, termVars,
                   hist>>

\* lines 86-88 and 112: App::new(), then run_app starts its clock
AppNew ==
    /\ pc = "app_new"
    /\ data' = <<>>
    /\ last_tick' = now
    /\ pc' = "draw"
    /\ hist' = [hist EXCEPT !.run_start = now]
    /\ UNCHANGED <<b_count, r_max, tickVars, timeout, mainVars, now, events,
                   termVars>>

\* line 90: disable_raw_mode()?
DisableRawMode ==
    /\ pc = "disable_raw_mode"
    /\ hist' = [hist EXCEPT !.disable_raw = @ + 1]
    /\ \E ok \in BOOLEAN :
          IF ok
          THEN /\ raw_mode' = FALSE
               /\ pc' = "leave_alt"
               /\ UNCHANGED <<exit_code, output>>
          ELSE /\ MainErr("disable_raw_mode")
               /\ UNCHANGED raw_mode
    /\ UNCHANGED <<appVars, tickVars, loopVars, res, now, events,
                   alt_screen, mouse_capture, screen>>

\* lines 92-96: execute!(.., LeaveAlternateScreen, DisableMouseCapture)?
LeaveAlternateScreen ==
    /\ pc = "leave_alt"
    /\ hist' = [hist EXCEPT !.leave_alt = @ + 1]
    /\ \E ok \in BOOLEAN :
          IF ok
          THEN /\ alt_screen' = FALSE
               /\ mouse_capture' = FALSE
               /\ pc' = "show_cursor"
               /\ UNCHANGED <<exit_code, output>>
          ELSE /\ MainErr("leave_alt")
               /\ UNCHANGED <<alt_screen, mouse_capture>>
    /\ UNCHANGED <<appVars, tickVars, loopVars, res, now, events, raw_mode,
                   screen>>

\* line 98: terminal.show_cursor()?
ShowCursor ==
    /\ pc = "show_cursor"
    /\ hist' = [hist EXCEPT !.show_cursor = @ + 1]
    /\ \E ok \in BOOLEAN :
          IF ok
          THEN /\ pc' = "report"
               /\ UNCHANGED <<exit_code, output>>
          ELSE MainErr("show_cursor")
    /\ UNCHANGED <<appVars, tickVars, loopVars, res, now, events, termVars>>

\* lines 100-104: print run_app's error if any, then Ok(())
Report ==
    /\ pc = "report"
    /\ output' = IF res.kind = "Err"
                 THEN Append(output, [stream |-> "stdout", err |-> res.err])
                 ELSE output
    /\ exit_code' = 0
    /\ pc' = "exit"
    /\ hist' = [hist EXCEPT !.reported = TRUE]
    /\ UNCHANGED <<appVars, tickVars, loopVars, res, now, events, termVars>>

(* ----------------------------- environment ----------------------------- *)

\* on_tick reads neither the clock nor the input: the time it takes and
\* the events that arrive while it runs are accounted for at its call
Running == pc \in LoopPcs \cup {"on_tick"}

\* time passes while run_app runs
Advance ==
    /\ Running
    /\ now + Quantum <= MaxTime
    /\ now' = now + Quantum
    /\ UNCHANGED <<pc, appVars, tickVars, loopVars, mainVars, events,
                   termVars, hist>>

\* the terminal delivers a key press, a mouse event or a resize
Input ==
    /\ Running
    /\ hist.inputs < MaxEvents
    /\ \E e \in InputEvents : events' = Append(events, e)
    /\ hist' = [hist EXCEPT !.inputs = @ + 1]
    /\ UNCHANGED <<pc, appVars, tickVars, loopVars, mainVars, now, termVars>>

(* --------------------------- the program ------------------------------- *)

Init ==
    /\ pc = "enable_raw_mode"
    /\ b_count \in 1..MaxLoopBCount
    /\ r_max \in 1..MaxLoopRMax
    /\ data = <<>>
    /\ buckets = <<>>
    /\ sums = <<>>
    /\ steps = 0
    /\ last_tick = 0
    /\ timeout = 0
    /\ res = NoResult
    /\ exit_code = -1
    /\ output = <<>>
    /\ now = 0
    /\ events = <<>>
    /\ raw_mode = FALSE
    /\ alt_screen = FALSE
    /\ mouse_capture = FALSE
    /\ screen = <<>>
    /\ hist = Hist0

Next ==
    \/ EnableRawMode \/ EnterAlternateScreen \/ TerminalNew \/ AppNew
    \/ Draw \/ ComputeTimeout \/ Poll \/ Read \/ CheckTick
    \/ OnTickBegin \/ SampleBegin \/ Step \/ Clear \/ Bin
    \/ ResetTick
    \/ DisableRawMode \/ LeaveAlternateScreen \/ ShowCursor \/ Report
    \/ Advance \/ Input

Spec == Init /\ [][Next]_vars

(* ---------------------- properties of on_tick -------------------------- *)

IsOdd(n) == n % 2 = 1

Returned == pc = "tick_done"

Labels == [j \in DOMAIN data |-> data[j].label]
Counts == [j \in DOMAIN data |-> data[j].count]

RECURSIVE Sum(_)
Sum(s) == IF s = <<>> THEN 0 ELSE Head(s) + Sum(Tail(s))

\* the j-th odd integer counted from -(r + 2)
OddFrom(r, j) == 2 * j - r - 4

\* C1: for odd r_max, when on_tick has returned the labels of data are the
\* odd integers from -(r_max + 2) to r_max + 2, each once and ascending,
\* written in decimal with a leading minus sign for the negative ones.
C1_LabelsAreOddRange ==
    (Returned /\ IsOdd(r_max)) =>
        /\ Len(data) = r_max + 3
        /\ \A j \in DOMAIN data :
              /\ Labels[j] = Format(OddFrom(r_max, j))
              /\ Parse(Labels[j]) = OddFrom(r_max, j)
        /\ Parse(Labels[1]) = -(r_max + 2)
        /\ Parse(Labels[Len(data)]) = r_max + 2
        /\ \A j \in 1..(Len(data) - 1) :
              Parse(Labels[j + 1]) = Parse(Labels[j]) + 2

\* a frame of a walk of odd length whose first label is "-11"
C1_Witness ==
    /\ Returned
    /\ IsOdd(r_max)
    /\ b_count > 0
    /\ Labels[1] = <<"-", "1", "1">>
    /\ Labels[Len(data)] = <<"1", "1">>

\* C2: for odd r_max, when on_tick has returned the counts of data sum to
\* b_count: every endpoint is counted in exactly one bucket.
C2_CountsSumToBCount ==
    (Returned /\ IsOdd(r_max)) => Sum(Counts) = b_count

\* two walks that ended in two different buckets
C2_Witness ==
    /\ Returned
    /\ IsOdd(r_max)
    /\ b_count = 2
    /\ \E j, k \in DOMAIN data : j # k /\ Counts[j] = 1 /\ Counts[k] = 1

\* C3: when on_tick has returned every count lies in 0..b_count and every
\* bucket whose label lies outside -r_max..r_max has count 0.
C3_CountsBoundedPaddingEmpty ==
    Returned =>
        \A j \in DOMAIN data :
            /\ Counts[j] >= 0
            /\ Counts[j] <= b_count
            /\ (Parse(Labels[j]) < -r_max \/ Parse(Labels[j]) > r_max)
                  => Counts[j] = 0

\* every walk ended at the extreme -r_max, next to the empty padding bucket
C3_Witness ==
    /\ Returned
    /\ b_count > 0
    /\ Parse(Labels[1]) < -r_max
    /\ Counts[1] = 0
    /\ Parse(Labels[2]) = -r_max
    /\ Counts[2] = b_count

\* C4: for even r_max on_tick returns a frame whose labels are all odd and
\* whose counts are all zero.
C4_EvenWalkAllZero ==
    (Returned /\ ~IsOdd(r_max)) =>
        /\ Len(data) = r_max + 2
        /\ \A j \in DOMAIN data :
              /\ Rem(Parse(Labels[j]), 2) # 0
              /\ Counts[j] = 0

\* walk_length = 2 with at least one walk taken
C4_Witness ==
    /\ Returned
    /\ r_max = 2
    /\ b_count > 0
    /\ Len(data) = 4

(* ---------------------- properties of run_app -------------------------- *)

\* a step that completes the read at line 121 without an error
ReadStep == pc = "read" /\ hist'.reads = hist.reads + 1 /\ hist'.failed = "none"

\* C5: the read of a 'q' key makes run_app return Ok(()) in that iteration
\* without a call of on_tick and without touching the App or last_tick,
\* also when a whole tick has elapsed; and a run that quits at its first
\* poll has drawn once and never regenerated.
C5_QuitBeforeTick ==
    /\ []((res = Ok /\ hist.polls = 1) => (hist.draws = 1 /\ hist.on_tick = 0))
    /\ [][(ReadStep /\ QNext) =>
             /\ res' = Ok
             /\ pc' = "disable_raw_mode"
             /\ hist'.on_tick = hist.on_tick
             /\ UNCHANGED <<appVars, last_tick>>]_vars

\* 'q' was read at the first poll when a whole tick had already elapsed
C5_Witness ==
    /\ res = Ok
    /\ hist.last_read = KeyQ
    /\ hist.polls = 1
    /\ now - last_tick >= tick_rate

NoQuitSeen == res = NoResult /\ \A j \in DOMAIN events : events[j] # KeyQ

\* C6 as stated: with no quit key and no failure, at the top of the loop
\* more than two tick intervals after run_app started on_tick has been
\* called at least twice.
C6_TwoTicksAfterTwoIntervals ==
    (pc = "draw" /\ NoQuitSeen /\ now - hist.run_start > 2 * tick_rate)
        => hist.on_tick >= 2

\* C6 amended: every poll that times out is followed in its iteration by a
\* call of on_tick, so on_tick has been called at least as often as the
\* poll has timed out (one less while the tick check or the call it makes
\* is still to run).
C6_TimeoutsRegenerate ==
    hist.on_tick >= hist.timeouts
                    - (IF pc \in {"check_tick", "on_tick"} THEN 1 ELSE 0)

\* the poll timed out twice and the second regeneration has returned
C6_Witness ==
    /\ pc = "draw"
    /\ NoQuitSeen
    /\ hist.timeouts = 2
    /\ hist.ticked = 2

\* the poll that returned while 'q' was next has led to the read or the return
QuitPollServed == hist.q_polls = 1 => (pc = "read" \/ res = Ok)

\* C7 as stated: from the moment 'q' is next in the queue, if nothing
\* fails, at most one draw and no call of on_tick precede the return at
\* the next poll.
C7_NoTickOnceQuitQueued ==
    hist.failed = "none" =>
        /\ hist.q_ticks = 0
        /\ hist.q_draws <= 1
        /\ hist.q_polls <= 1
        /\ QuitPollServed

\* C7 amended: from the moment 'q' is next in the queue, if nothing fails,
\* at most one draw and at most one call of on_tick precede the return at
\* the next poll.
C7_QuitWithinOnePoll ==
    hist.failed = "none" =>
        /\ hist.q_ticks <= 1
        /\ hist.q_draws <= 1
        /\ hist.q_polls <= 1
        /\ QuitPollServed

\* 'q' arrived after the poll had returned: one regeneration and one draw
\* went before the poll that delivered it
C7_Witness ==
    /\ res = Ok
    /\ hist.q_ticks = 1
    /\ hist.q_draws = 1
    /\ hist.q_polls = 1

\* C8: the read of an event other than the key 'q' does not make run_app
\* return and changes neither the App nor last_tick; run_app returns Ok(())
\* only after reading the key 'q'.
C8_OtherEventsIgnored ==
    /\ [](res = Ok => hist.last_read = KeyQ)
    /\ [][(ReadStep /\ Head(events) # KeyQ) =>
             /\ pc' = "check_tick"
             /\ res' = NoResult
             /\ UNCHANGED <<appVars, last_tick>>]_vars

\* an event other than the key 'q' was read and ignored, then 'q' ended
\* the run
C8_Witness ==
    /\ res = Ok
    /\ hist.reads = 2
    /\ hist.inputs = 2
    /\ events = <<>>

\* C9: a failed draw, poll or read makes run_app return that error at
\* once: control has left the loop, and no draw, poll, read or on_tick is
\* executed afterwards.
C9_FailureIsFatal ==
    /\ [](hist.failed # "none" =>
             /\ res = Err(hist.failed)
             /\ pc \notin (LoopPcs \cup OnTickPcs))
    /\ [][hist.failed # "none" =>
             /\ hist'.draws = hist.draws
             /\ hist'.polls = hist.polls
             /\ hist'.reads = hist.reads
             /\ hist'.on_tick = hist.on_tick
             /\ hist'.failed = hist.failed
             /\ res' = res]_vars

\* the poll of a later iteration failed and main has finished
C9_Witness ==
    /\ hist.failed = "poll"
    /\ hist.draws >= 2
    /\ hist.polls >= 2
    /\ pc = "exit"

(* ------------------------ properties of main --------------------------- *)

\* C10 as stated: whenever main has returned after putting the terminal
\* into raw mode, disable_raw_mode has been executed exactly once, and
\* LeaveAlternateScreen exactly once if the alternate screen was entered.
C10_TerminalRestored ==
    (pc = "exit" /\ hist.raw_entered) =>
        /\ hist.disable_raw = 1
        /\ hist.alt_entered => hist.leave_alt = 1

\* main has returned Err from a set-up or tear-down step
MainFailed == pc = "exit" /\ ~hist.reported

\* C11 as stated: main exits with code 0 after a clean quit, and whenever
\* set-up, run_app or tear-down failed something has been printed and the
\* exit code is not 0.
C11_ExitCodeReflectsFailure ==
    pc = "exit" =>
        /\ (res = Ok /\ ~MainFailed) => exit_code = 0
        /\ (res.kind = "Err" \/ MainFailed) =>
              (output # <<>> /\ exit_code # 0)

(* ------------------- properties of the frame drawn --------------------- *)

\* a draw that completes without an error
DrawStep == pc = "draw" /\ hist'.draws = hist.draws + 1 /\ hist'.failed = "none"

\* the number of labels of a complete frame
FrameLen == r_max + 2 + (r_max % 2)

\* C12: whenever run_app is about to draw, data is the empty initial frame
\* or the whole output of the last completed on_tick, never a frame under
\* construction; the draw shows exactly that frame; and no on_tick is
\* called before the first draw.
C12_DrawSeesCompleteFrame ==
    /\ [](pc = "draw" =>
             /\ data = hist.last_frame
             /\ hist.on_tick = hist.ticked
             /\ IF hist.ticked = 0 THEN data = <<>> ELSE Len(data) = FrameLen)
    /\ [](hist.on_tick >= 1 => hist.draws >= 1)
    /\ [][DrawStep =>
             /\ Len(screen') = Len(hist.last_frame)
             /\ \A j \in DOMAIN hist.last_frame :
                   /\ screen'[j].label = hist.last_frame[j].label
                   /\ screen'[j].value = hist.last_frame[j].count]_vars

\* the third draw has shown the frame of the second regeneration
C12_Witness ==
    /\ pc = "timeout"
    /\ hist.draws = 3
    /\ hist.ticked = 2
    /\ Len(screen) = FrameLen
    /\ \E j \in DOMAIN screen : screen[j].value > 0

(* --------------- properties of repeated calls of on_tick --------------- *)

\* the smallest label for walks of length r
FirstLabel(r) == -(r + 1 + (r % 2))

\* the endpoint of walk w when the draws of a call fell as lows says
WalkEnd(lows, w, r) ==
    Sum([k \in 1..r |-> IF lows[(w - 1) * r + k] THEN -1 ELSE 1])

\* the frame that r, b and the logged draws determine
FrameOf(r, b, lows) ==
    [j \in 1..(r + 2 + (r % 2)) |->
        [label |-> Format(FirstLabel(r) + 2 * (j - 1)),
         count |-> Cardinality({w \in 1..b :
                        WalkEnd(lows, w, r) = FirstLabel(r) + 2 * (j - 1)})]]

\* C13: the frame on_tick returns is a function of r_max, b_count and the
\* sequence of step outcomes of that call alone: the same outcomes give the
\* same labels and counts in the same order, whatever the frame before.
C13_FrameDeterminedByDraws ==
    (Returned /\ hist.log) =>
        /\ Len(hist.lows) = r_max * b_count
        /\ data = FrameOf(r_max, b_count, hist.lows)

\* a second call, over a previous frame, whose two walks ended apart
C13_Witness ==
    /\ Returned
    /\ hist.log
    /\ hist.ticked = 2
    /\ r_max = 3
    /\ b_count = 2
    /\ hist.lows = <<TRUE, TRUE, TRUE, FALSE, TRUE, FALSE>>
    /\ Counts = <<0, 1, 0, 1, 0, 0>>

\* C17: after any number n >= 1 of calls on the same App with odd r_max,
\* data has exactly r_max + 3 entries, zero counts included, and its counts
\* sum to b_count: nothing of an earlier frame is carried over.
C17_FrameReplacedEachCall ==
    (Returned /\ IsOdd(r_max)) =>
        /\ hist.ticked >= 1
        /\ Len(data) = r_max + 3
        /\ Sum(Counts) = b_count
        /\ \A j \in DOMAIN data : Counts[j] \in 0..b_count

\* the second call has returned; one bucket holds both walks
C17_Witness ==
    /\ Returned
    /\ IsOdd(r_max)
    /\ hist.ticked = 2
    /\ b_count = 2
    /\ \E j \in DOMAIN data : Counts[j] = 2
    /\ \E j \in DOMAIN data : Counts[j] = 0

(* ------------------ properties of the loop's timing -------------------- *)

\* the step of line 129 that calls on_tick
CallStep == pc = "check_tick" /\ pc' = "on_tick"

\* C14: on_tick is called only from the tick check of an iteration that
\* neither quit nor failed, when at least tick_rate has passed since
\* last_tick, and last_tick is reset when it returns; so the first call
\* comes no earlier than tick_rate after run_app started and every later
\* call no earlier than tick_rate after the call before it.
C14_TicksAtLeastTickRateApart ==
    /\ [][(pc' = "on_tick" /\ pc # "on_tick") => CallStep]_vars
    /\ [][CallStep =>
             /\ res = NoResult
             /\ hist.failed = "none"
             /\ now - last_tick >= tick_rate
             /\ now - hist.run_start >= tick_rate
             /\ hist.on_tick >= 1 => now - hist.call_time >= tick_rate]_vars
    /\ [][(pc = "tick_done" /\ pc' # "tick_done") =>
             (pc' = "draw" /\ last_tick' = now)]_vars

\* the first call followed a poll that timed out, the second the read of
\* a mouse event
C14_Witness ==
    /\ pc = "sample"
    /\ hist.on_tick = 2
    /\ hist.timeouts = 1
    /\ hist.last_read = Mouse

\* C15: the timeout handed to poll is tick_rate minus the time passed
\* since last_tick when the timeout was computed, and zero when more than
\* tick_rate had passed; it always lies between zero and tick_rate.
C15_TimeoutSaturates ==
    /\ timeout >= 0
    /\ timeout <= tick_rate
    /\ pc = "poll" =>
          /\ hist.poll_start - last_tick <= tick_rate =>
                timeout + (hist.poll_start - last_tick) = tick_rate
          /\ hist.poll_start - last_tick > tick_rate => timeout = 0

\* a poll begun later than tick_rate after last_tick
C15_Witness ==
    /\ pc = "poll"
    /\ hist.poll_start - last_tick > tick_rate
    /\ timeout = 0

\* C16: event::read is entered only from a poll that found an event
\* waiting, so it never blocks; an iteration reads at most one event; the
\* only wait for input is the poll, bounded by timeout.
C16_ReadOnlyAfterReadyPoll ==
    /\ [][(pc' = "read" /\ pc # "read") =>
             (pc = "poll" /\ events # <<>>)]_vars
    /\ [](pc = "read" => events # <<>>)
    /\ [][hist'.reads # hist.reads =>
             (pc = "read" /\ hist'.reads = hist.reads + 1)]_vars
    /\ [](/\ hist.reads + hist.timeouts <= hist.polls
          /\ hist.polls <= hist.draws)

\* two iterations each read one event, no poll timed out
C16_Witness ==
    /\ pc = "check_tick"
    /\ hist.reads = 2
    /\ hist.polls = 2
    /\ hist.draws = 2
    /\ hist.timeouts = 0

\* C18: b_count and r_max never change once the App exists, and data
\* changes only inside on_tick (its clear and its pushes): drawing,
\* polling, reading, the tick check and the reset of last_tick leave the
\* App as it was.
C18_AppChangedOnlyByOnTick ==
    [][/\ b_count' = b_count
       /\ r_max' = r_max
       /\ data' # data => pc \in {"clear", "bin"}
       /\ pc \in LoopPcs =>
             data' = data]_vars

\* a frame drawn after an event was read and a tick regenerated it
C18_Witness ==
    /\ pc = "timeout"
    /\ hist.ticked >= 1
    /\ hist.reads >= 1
    /\ hist.draws >= 2
    /\ data = hist.last_frame
    /\ data # <<>>

\* run_app's error has been printed by line 101
Diagnosed ==
    /\ res.kind = "Err"
    /\ \E i \in DOMAIN output :
          output[i] = [stream |-> "stdout", err |-> res.err]

\* C19 as stated: once main has returned after run_app returned an error,
\* disable_raw_mode, LeaveAlternateScreen/DisableMouseCapture and
\* show_cursor have each run and the error has been printed; and the error
\* is never printed while the terminal is still in raw mode or on the
\* alternate screen.
C19_TeardownThenDiagnostic ==
    /\ (pc = "exit" /\ res.kind = "Err") =>
          /\ hist.disable_raw = 1
          /\ hist.leave_alt = 1
          /\ hist.show_cursor = 1
          /\ Diagnosed
    /\ Diagnosed => (~raw_mode /\ ~alt_screen /\ ~mouse_capture)

=============================================================================
